---- MODULE Spec2Model ----
(***************************************************************************)
(* Model of telegram_channel_downloader.py: the TelegramChannelDownloader  *)
(* object, a run of download_channel as main() starts it and ends the      *)
(* process after it, and calls of download_media and sanitize_filename     *)
(* made on the object directly.                                            *)
(*                                                                         *)
(* Python strings are sequences of one-character strings, so that the      *)
(* substring tests, split('/') and path joins of the code are computed.    *)
(*                                                                         *)
(* Attribute lookup is modelled: the class defines connect,                *)
(* sanitize_filename, create_download_directory, download_media and        *)
(* download_channel (lines 67, 84, 91, 106, 159).  The call sites at       *)
(* lines 94, 136, 152, 184 and 211 name _sanitize_filename,                *)
(* _create_download_directory and _download_media, which no line of the    *)
(* file defines (no __getattr__, no alias, no base class): evaluating      *)
(* self._x raises AttributeError, an Exception.  Each such call site is    *)
(* an IF on HasAttr: the call when the name resolves, the raise when not.  *)
(*                                                                         *)
(* Consequences the model computes rather than assumes: download_channel   *)
(* raises at line 184 as soon as get_entity has returned, so no behaviour  *)
(* of Spec reaches the loop of lines 201-236 or the flush of lines         *)
(* 239-240, and Next has no action for them; download_media raises at      *)
(* line 152 after a rate-limit wait, and at line 136 (caught at line 154)  *)
(* for a document with a declared file name.                               *)
(*                                                                         *)
(* Spec      : a run of download_channel, one step per await.              *)
(* SpecMedia : download_media called on the object, one step per await.    *)
(* SpecSanitize : sanitize_filename called on the object, twice in a row.  *)
(* SpecLive  : Spec with every await completing (weak fairness of Next).   *)
(***************************************************************************)
EXTENDS Integers, Sequences, FiniteSets, TLC

VARIABLES
    pc,             \* position of the download_channel coroutine
    exc,            \* exception in flight in download_channel ("none" if none)
    outcome,        \* how download_channel ended: "running", "returned", "raised"
    input,          \* arguments of the run: channel_username, limit, remote sequence
    channel_username, \* the local of download_channel after lines 171-172
    resolved,       \* get_entity returned a channel
    tcalls,         \* the calls made on self.client, in order
    stats,          \* self.stats
    messages_data,  \* the in-memory record list of download_channel
    fs,             \* what exists on disk
    mpc,            \* position of a download_media call
    cur,            \* the message a download_media call works on
    file_path,      \* file_path of the download_media call
    waits,          \* the durations asyncio.sleep was awaited with, in order
    fetches,        \* client.download_media invocations of the download_media call
    fetch_log,      \* what the remote side answered to each of them, in order
    ret,            \* how the last download_media call ended
    ncalls,         \* download_media calls made on the object so far
    process,        \* the process of main(): running, or exited with a status
    call            \* a sanitize_filename call a client makes on the object

vars == <<pc, exc, outcome, input, channel_username, resolved, tcalls, stats,
          messages_data, fs, mpc, cur, file_path, waits, fetches, fetch_log, ret, ncalls,
          process, call>>

---------------------------------------------------------------------------
(* Bounds of the model *)

\* download_media calls a client makes on one object
MaxCalls == 2
\* longest remote message sequence of a run
MaxSeq == 2
\* largest number of seconds a FloodWaitError carries
MaxWait == 2
\* longest of the short names handed to sanitize_filename
MaxShort == 2

---------------------------------------------------------------------------
(* Strings *)

s_video == <<"v","i","d","e","o">>
s_audio == <<"a","u","d","i","o">>
s_ogg == <<"o","g","g">>
s_bin == <<"b","i","n">>
s_photos == <<"p","h","o","t","o","s">>
s_videos == <<"v","i","d","e","o","s">>
s_documents == <<"d","o","c","u","m","e","n","t","s">>
s_photo_ == <<"p","h","o","t","o","_">>
s_file_ == <<"f","i","l","e","_">>
s_jpg == <<".","j","p","g">>

\* sub in s
Contains(s, sub) ==
    \E i \in 1..(Len(s) - Len(sub) + 1) : SubSeq(s, i, i + Len(sub) - 1) = sub

\* the positions of '/' in s
SlashAt(s) == {i \in 1..Len(s) : s[i] = "/"}

Max(S) == CHOOSE m \in S : \A n \in S : n <= m

\* s.split('/')[-1]
AfterLastSlash(s) ==
    IF SlashAt(s) = {} THEN s ELSE SubSeq(s, Max(SlashAt(s)) + 1, Len(s))

Digit(d) == <<"0","1","2","3","4","5","6","7","8","9">>[d + 1]

RECURSIVE StrOfInt(_)
\* str(n) of a non-negative int, as the f-strings of lines 111 and 141 format it
StrOfInt(n) == IF n < 10 THEN <<Digit(n)>> ELSE StrOfInt(n \div 10) \o <<Digit(n % 10)>>

---------------------------------------------------------------------------
(* pathlib: a relative path is the sequence of its components *)

RECURSIVE SplitSlash(_)
\* the non-empty pieces of s between '/' characters, '.' pieces dropped
SplitSlash(s) ==
    IF s = <<>> THEN <<>>
    ELSE IF SlashAt(s) = {}
         THEN IF s = <<".">> THEN <<>> ELSE <<s>>
         ELSE LET i == CHOOSE k \in SlashAt(s) : \A j \in SlashAt(s) : k <= j
                  head == SubSeq(s, 1, i - 1)
                  rest == SplitSlash(SubSeq(s, i + 1, Len(s)))
              IN  IF head = <<>> \/ head = <<".">> THEN rest ELSE <<head>> \o rest

\* path / s : s replaces the path when it is absolute
PathJoin(path, s) ==
    IF s # <<>> /\ s[1] = "/" THEN <<<<"/">>>> \o SplitSlash(s)
    ELSE path \o SplitSlash(s)

RECURSIVE PathStr(_)
\* str(path)
PathStr(path) ==
    IF path = <<>> THEN <<".">>
    ELSE IF Len(path) = 1 THEN path[1]
    ELSE IF path[1] = <<"/">> THEN <<"/">> \o PathStr(Tail(path))
    ELSE path[1] \o <<"/">> \o PathStr(Tail(path))

---------------------------------------------------------------------------
(* Attribute lookup on the TelegramChannelDownloader object *)

n_connect == <<"c","o","n","n","e","c","t">>
n_sanitize_filename == <<"s","a","n","i","t","i","z","e","_","f","i","l","e","n","a","m","e">>
n_create_download_directory ==
    <<"c","r","e","a","t","e","_","d","o","w","n","l","o","a","d","_","d","i","r","e","c","t","o","r","y">>
n_download_media == <<"d","o","w","n","l","o","a","d","_","m","e","d","i","a">>
n_download_channel == <<"d","o","w","n","l","o","a","d","_","c","h","a","n","n","e","l">>

\* the methods the class body defines (def lines 67, 84, 91, 106, 159)
Methods ==
    {n_connect, n_sanitize_filename, n_create_download_directory,
     n_download_media, n_download_channel}

\* the instance attributes __init__ sets (lines 54-58)
InstanceAttrs ==
    {<<"a","p","i","_","i","d">>, <<"a","p","i","_","h","a","s","h">>,
     <<"p","h","o","n","e">>, <<"c","l","i","e","n","t">>, <<"s","t","a","t","s">>}

\* self.<name> evaluates; otherwise it raises AttributeError
HasAttr(name) == name \in Methods \cup InstanceAttrs

\* the name written at a call site self._<method>(...)
Underscored(name) == <<"_">> \o name

---------------------------------------------------------------------------
(* sanitize_filename, lines 84-89 *)

InvalidChars == {"<", ">", ":", "\"", "/", "\\", "|", "?", "*"}

\* the slice bound of line 89
NameMax == 255

\* sanitize_filename without the slice of line 89
sanitize_filename_Unsliced(filename) ==
    [i \in 1..Len(filename) |->
        IF filename[i] \in InvalidChars THEN "_" ELSE filename[i]]

sanitize_filename(filename) ==
    LET replaced == [i \in 1..Len(filename) |->
                        IF filename[i] \in InvalidChars THEN "_" ELSE filename[i]]
    IN  SubSeq(replaced, 1, IF Len(replaced) < NameMax THEN Len(replaced) ELSE NameMax)

---------------------------------------------------------------------------
(* Messages and media descriptors *)

NoMedia == [kind |-> "none", mime |-> <<>>, attrs |-> <<>>]
WebPage == [kind |-> "webpage", mime |-> <<>>, attrs |-> <<>>]
Photo == [kind |-> "photo", mime |-> <<>>, attrs |-> <<>>]
Document(mime, attrs) == [kind |-> "document", mime |-> mime, attrs |-> attrs]

\* a document attribute: named says whether it has a file_name
Unnamed == [named |-> FALSE, file_name |-> <<>>]
Named(fn) == [named |-> TRUE, file_name |-> fn]

m_video_mp4 == <<"v","i","d","e","o","/","m","p","4">>
m_video_ogg == <<"v","i","d","e","o","/","o","g","g">>
m_app_ogg == <<"a","p","p","/","o","g","g">>
m_app_pdf == <<"a","p","p","/","p","d","f">>
m_audio == <<"a","u","d","i","o">>
m_empty == <<>>
f_report_pdf == <<"r","e","p","o","r","t",".","p","d","f">>

Mimes == {m_video_mp4, m_video_ogg, m_app_ogg, m_app_pdf, m_audio, m_empty}
AttrLists == {<<>>, <<Unnamed>>, <<Named(f_report_pdf)>>, <<Unnamed, Named(f_report_pdf)>>}
Medias == {NoMedia, WebPage, Photo} \cup {Document(m, a) : m \in Mimes, a \in AttrLists}
MessageIds == {7, 42}

Message(id, service, media) == [id |-> id, service |-> service, media |-> media]

\* the directory a client hands to download_media
BaseDir == << <<"d","l">>, <<"c","_","0">> >>

---------------------------------------------------------------------------
(* The classification of download_media, lines 110-143 *)

\* Subdir with the audio test made before the video test
Subdir_AudioFirst(mime_type) ==
    IF Contains(mime_type, s_audio) \/ Contains(mime_type, s_ogg) THEN s_audio
    ELSE IF Contains(mime_type, s_video) THEN s_videos
    ELSE s_documents

\* lines 122-130: the subdirectory of a document
Subdir(mime_type) ==
    IF Contains(mime_type, s_video) THEN s_videos
    ELSE IF Contains(mime_type, s_audio) \/ Contains(mime_type, s_ogg) THEN s_audio
    ELSE s_documents

\* CategoryKey with the audio test made before the video test
CategoryKey_AudioFirst(mime_type) ==
    IF Contains(mime_type, s_audio) \/ Contains(mime_type, s_ogg) THEN "audio"
    ELSE IF Contains(mime_type, s_video) THEN "videos"
    ELSE "documents"

\* lines 122-130: the counter the classification increments
CategoryKey(mime_type) ==
    IF Contains(mime_type, s_video) THEN "videos"
    ELSE IF Contains(mime_type, s_audio) \/ Contains(mime_type, s_ogg) THEN "audio"
    ELSE "documents"

\* lines 134-135: the document has an attribute with a file_name
HasDeclaredName(attrs) == \E i \in 1..Len(attrs) : attrs[i].named

\* lines 134-137: the file_name of the first attribute that has one
FirstDeclaredName(attrs) ==
    attrs[CHOOSE i \in 1..Len(attrs) :
              attrs[i].named /\ \A j \in 1..(i - 1) : ~attrs[j].named].file_name

\* line 140
Extension(mime_type) ==
    IF SlashAt(mime_type) # {} THEN AfterLastSlash(mime_type) ELSE s_bin

\* line 141
SynthesizedName(id, mime_type) == s_file_ \o StrOfInt(id) \o <<".">> \o Extension(mime_type)

\* line 111
PhotoPath(base_dir, id) ==
    PathJoin(PathJoin(base_dir, s_photos), s_photo_ \o StrOfInt(id) \o s_jpg)

\* line 143
DocumentPath(base_dir, mime_type, filename) ==
    PathJoin(PathJoin(base_dir, Subdir(mime_type)), filename)

---------------------------------------------------------------------------
(* State after construction, lines 54-65 *)

ZeroStats ==
    [messages |-> 0, photos |-> 0, videos |-> 0, documents |-> 0, audio |-> 0, errors |-> 0]

EmptyDisk ==
    [dirs |-> {}, files |-> {},
     transcript |-> [exists |-> FALSE, header |-> <<>>, blocks |-> <<>>],
     json_writes |-> 0, json |-> <<>>]

\* results of a download_media call
Pending == [kind |-> "pending", isNone |-> TRUE, path |-> <<>>, exc |-> "none"]
ReturnedNone == [kind |-> "returned", isNone |-> TRUE, path |-> <<>>, exc |-> "none"]
Returned(p) == [kind |-> "returned", isNone |-> FALSE, path |-> p, exc |-> "none"]
Raised(e) == [kind |-> "raised", isNone |-> TRUE, path |-> <<>>, exc |-> e]

NoMessage == Message(0, FALSE, NoMedia)

\* the process before it ends
Running == [state |-> "running", status |-> 0, said |-> "nothing"]
Exited(status, said) == [state |-> "exited", status |-> status, said |-> said]

\* no sanitize_filename call made
NoCall == [arg |-> <<>>, applied |-> 0, first |-> <<>>, second |-> <<>>]

Bump(s, key) == [s EXCEPT ![key] = @ + 1]

---------------------------------------------------------------------------
(* download_media, lines 106-157 *)

runVars == <<pc, exc, outcome, input, channel_username, resolved, tcalls, messages_data,
             process, call>>

\* HandleException without the increment of line 156
HandleException_NoCount(s) ==
    /\ stats' = s
    /\ ret' = ReturnedNone
    /\ mpc' = "idle"

\* lines 154-157: the handler of except Exception
HandleException(s) ==
    /\ stats' = Bump(s, "errors")
    /\ ret' = ReturnedNone
    /\ mpc' = "idle"

\* NoMediaReturn counting the message as an error
NoMediaReturn_Counted(f) ==
    /\ HandleException(stats)
    /\ fetches' = f
    /\ UNCHANGED file_path

\* lines 109, 110, 116 and 147: the media is absent, or neither a photo nor a
\* document (a web page preview): return None
NoMediaReturn(f) ==
    /\ ret' = ReturnedNone
    /\ mpc' = "idle"
    /\ fetches' = f
    /\ UNCHANGED <<stats, file_path>>

\* lines 108-147 from the entry of the method to its first await or its return;
\* f is the number of fetches already made for the message
EnterDownloadMedia(message, base_dir, f) ==
    LET media == message.media IN
    IF media.kind = "photo"
    THEN \* lines 110-112
         /\ file_path' = PhotoPath(base_dir, message.id)
         /\ fetches' = f + 1
         /\ mpc' = "fetch"
         /\ ret' = Pending
         /\ UNCHANGED stats
    ELSE IF media.kind = "document"
    THEN \* lines 116-144
         LET counted == Bump(stats, CategoryKey(media.mime)) IN
         IF HasDeclaredName(media.attrs) /\ ~HasAttr(Underscored(n_sanitize_filename))
         THEN \* line 136 raises AttributeError, caught at line 154
              /\ HandleException(counted)
              /\ fetches' = f
              /\ UNCHANGED file_path
         ELSE LET declared == IF HasDeclaredName(media.attrs)
                              THEN sanitize_filename(FirstDeclaredName(media.attrs))
                              ELSE <<>>
                  filename == IF declared # <<>> THEN declared
                              ELSE SynthesizedName(message.id, media.mime)
              IN  /\ stats' = counted
                  /\ file_path' = DocumentPath(base_dir, media.mime, filename)
                  /\ fetches' = f + 1
                  /\ mpc' = "fetch"
                  /\ ret' = Pending
    ELSE NoMediaReturn(f)

\* a client calls download_media(message, base_dir) on the object
CallDownloadMedia ==
    /\ mpc = "idle"
    /\ ncalls < MaxCalls
    /\ \E id \in MessageIds, media \in Medias :
          /\ cur' = Message(id, FALSE, media)
          /\ EnterDownloadMedia(Message(id, FALSE, media), BaseDir, 0)
    /\ ncalls' = ncalls + 1
    /\ waits' = <<>>
    /\ fetch_log' = <<>>
    /\ UNCHANGED <<fs, runVars>>

\* lines 112-114 and 144-145: client.download_media returns
FetchSucceeds ==
    /\ mpc = "fetch"
    /\ fs' = [fs EXCEPT !.files = @ \cup {file_path}]
    /\ stats' = IF cur.media.kind = "photo" THEN Bump(stats, "photos") ELSE stats
    /\ ret' = Returned(PathStr(file_path))
    /\ mpc' = "idle"
    /\ fetch_log' = Append(fetch_log, "ok")
    /\ UNCHANGED <<cur, file_path, waits, fetches, ncalls, runVars>>

\* lines 149-151: client.download_media raises FloodWaitError(seconds)
FetchRateLimited ==
    /\ mpc = "fetch"
    /\ \E seconds \in 1..MaxWait : waits' = Append(waits, seconds)
    /\ mpc' = "sleep"
    /\ fetch_log' = Append(fetch_log, "flood")
    /\ UNCHANGED <<stats, fs, cur, file_path, fetches, ret, ncalls, runVars>>

\* line 152, after asyncio.sleep returned: return await self._download_media(...)
SleepReturns ==
    /\ mpc = "sleep"
    /\ IF HasAttr(Underscored(n_download_media))
       THEN EnterDownloadMedia(cur, BaseDir, fetches)
       ELSE \* AttributeError raised inside the handler of line 149: the
            \* except Exception clause of the same try does not catch it
            /\ ret' = Raised("AttributeError")
            /\ mpc' = "idle"
            /\ UNCHANGED <<stats, file_path, fetches>>
    /\ UNCHANGED <<fs, cur, waits, fetch_log, ncalls, runVars>>

\* lines 154-157: client.download_media raises another Exception
FetchFails ==
    /\ mpc = "fetch"
    /\ HandleException(stats)
    /\ fetch_log' = Append(fetch_log, "error")
    /\ UNCHANGED <<fs, cur, file_path, waits, fetches, ncalls, runVars>>

\* the await of line 112, 144 or 151 is cancelled or interrupted: a BaseException,
\* which neither except clause catches
MediaCancelled ==
    /\ mpc \in {"fetch", "sleep"}
    /\ ret' = Raised("Cancelled")
    /\ mpc' = "idle"
    /\ fetch_log' = IF mpc = "fetch" THEN Append(fetch_log, "cancel") ELSE fetch_log
    /\ UNCHANGED <<stats, fs, cur, file_path, waits, fetches, ncalls, runVars>>

InitObject ==
    /\ stats = ZeroStats
    /\ fs = EmptyDisk
    /\ messages_data = <<>>
    /\ tcalls = <<>>
    /\ exc = "none"
    /\ resolved = FALSE
    /\ mpc = "idle"
    /\ cur = NoMessage
    /\ file_path = <<>>
    /\ waits = <<>>
    /\ fetches = 0
    /\ fetch_log = <<>>
    /\ ret = Pending
    /\ ncalls = 0
    /\ process = Running

\* an object on which a client calls download_media
InitMedia ==
    /\ InitObject
    /\ pc = "not_called"
    /\ outcome = "not_called"
    /\ input = [channel_username |-> <<>>, limit |-> [some |-> FALSE, n |-> 0], remote |-> <<>>]
    /\ channel_username = <<>>
    /\ call = NoCall

NextMedia ==
    \/ CallDownloadMedia
    \/ FetchSucceeds
    \/ FetchRateLimited
    \/ SleepReturns
    \/ FetchFails
    \/ MediaCancelled

SpecMedia == InitMedia /\ [][NextMedia]_vars

---------------------------------------------------------------------------
(* A run of download_channel(channel_username, limit), lines 159-259 *)

mediaVars == <<mpc, cur, file_path, waits, fetches, fetch_log, ret, ncalls>>

u_chan == <<"c","h","a","n">>
u_at_chan == <<"@","c","h","a","n">>
s_timestamp == <<"2","0","2","6","0","1","0","1","_","0","0","0","0","0","0">>
s_downloads == <<"d","o","w","n","l","o","a","d","s">>
s_messages == <<"m","e","s","s","a","g","e","s">>

\* the messages the remote side may hold
RunMedias == {NoMedia, WebPage, Photo, Document(m_video_mp4, <<>>)}

RECURSIVE SeqsUpTo(_, _)
SeqsUpTo(S, n) ==
    IF n = 0 THEN {<<>>}
    ELSE SeqsUpTo(S, n - 1) \cup
         {Append(q, x) : q \in {r \in SeqsUpTo(S, n - 1) : Len(r) = n - 1}, x \in S}

\* the remote sequence: ids follow the iteration order
RemoteSeqs ==
    {[i \in 1..Len(q) |-> Message(i, q[i].service, q[i].media)] :
        q \in SeqsUpTo([service : {FALSE}, media : RunMedias]
                       \cup {[service |-> TRUE, media |-> NoMedia]}, MaxSeq)}

Limits == {[some |-> FALSE, n |-> 0], [some |-> TRUE, n |-> 1]}

\* line 201: the messages iter_messages(channel, limit=limit) yields
Delivered(inp) ==
    IF inp.limit.some /\ inp.limit.n < Len(inp.remote)
    THEN SubSeq(inp.remote, 1, inp.limit.n)
    ELSE inp.remote

\* lines 203-204: the messages the loop does not skip
NonService(q) == SelectSeq(q, LAMBDA m : ~m.service)

\* lines 171-172
StripAt(name) == IF name # <<>> /\ name[1] = "@" THEN Tail(name) ELSE name

\* lines 93-95: the directory of the run
RunDirectory(channel_name) ==
    PathJoin(<<>>, s_downloads \o <<"/">> \o sanitize_filename(channel_name)
                   \o <<"_">> \o s_timestamp)

\* lines 98-102
Subdirectories(base_dir) ==
    {PathJoin(base_dir, d) : d \in {s_photos, s_videos, s_documents, s_audio, s_messages}}

\* the positions at which connect() awaits the client, lines 69-80
ConnectAwaits == {"connect", "is_user_authorized", "send_code_request", "sign_in", "sign_in_password"}

\* the client call awaited at a position
CallAt(p) == IF p = "finally" THEN "disconnect" ELSE p

\* Abort without the finally clause of lines 258-259
Abort_NoFinally(e) ==
    /\ exc' = e
    /\ pc' = "done"

\* an exception leaves the try body of line 167: the handler of lines 254-256
\* logs and re-raises an Exception, a BaseException passes it; then finally
Abort(e) ==
    /\ exc' = e
    /\ pc' = "finally"

\* line 69
Connect ==
    /\ pc = "connect"
    /\ tcalls' = Append(tcalls, "connect")
    /\ pc' = "is_user_authorized"
    /\ UNCHANGED <<exc, outcome, input, channel_username, resolved, stats,
                   messages_data, fs, mediaVars, process, call>>

\* lines 82 and 171-174, reached when connect() returns
ConnectDone ==
    /\ channel_username' = StripAt(input.channel_username)
    /\ pc' = "get_entity"

\* line 71
IsUserAuthorized ==
    /\ pc = "is_user_authorized"
    /\ tcalls' = Append(tcalls, "is_user_authorized")
    /\ \/ ConnectDone
       \/ pc' = "send_code_request" /\ UNCHANGED channel_username
    /\ UNCHANGED <<exc, outcome, input, resolved, stats, messages_data, fs, mediaVars, process, call>>

\* line 73
SendCodeRequest ==
    /\ pc = "send_code_request"
    /\ tcalls' = Append(tcalls, "send_code_request")
    /\ pc' = "sign_in"
    /\ UNCHANGED <<exc, outcome, input, channel_username, resolved, stats,
                   messages_data, fs, mediaVars, process, call>>

\* lines 76-78: sign_in returns, or raises SessionPasswordNeededError
SignIn ==
    /\ pc = "sign_in"
    /\ tcalls' = Append(tcalls, "sign_in")
    /\ \/ ConnectDone
       \/ pc' = "sign_in_password" /\ UNCHANGED channel_username
    /\ UNCHANGED <<exc, outcome, input, resolved, stats, messages_data, fs, mediaVars, process, call>>

\* lines 79-80
SignInPassword ==
    /\ pc = "sign_in_password"
    /\ tcalls' = Append(tcalls, "sign_in")
    /\ ConnectDone
    /\ UNCHANGED <<exc, outcome, input, resolved, stats, messages_data, fs, mediaVars, process, call>>

\* an await of connect() raises an Exception, or is cancelled or interrupted
ConnectFails ==
    /\ pc \in ConnectAwaits
    /\ tcalls' = Append(tcalls, CallAt(pc))
    /\ \E e \in {"Exception", "Cancelled"} : Abort(e)
    /\ UNCHANGED <<outcome, input, channel_username, resolved, stats,
                   messages_data, fs, mediaVars, process, call>>

\* lines 184-197, from the return of get_entity to the first await of line 201
OpenOutput(title) ==
    IF ~HasAttr(Underscored(n_create_download_directory))
       \/ ~HasAttr(Underscored(n_sanitize_filename))
    THEN \* line 184 (or line 94) raises AttributeError
         /\ Abort("AttributeError")
         /\ UNCHANGED <<fs, messages_data>>
    ELSE /\ fs' = [fs EXCEPT
                     !.dirs = @ \cup Subdirectories(RunDirectory(title)),
                     !.transcript = [exists |-> TRUE, header |-> title, blocks |-> <<>>]]
         /\ messages_data' = <<>>
         /\ pc' = "iter_messages"
         /\ UNCHANGED exc

\* line 178 returns the channel; channel.title or channel_username
GetEntityReturns ==
    /\ pc = "get_entity"
    /\ tcalls' = Append(tcalls, "get_entity")
    /\ resolved' = TRUE
    /\ \E title \in {<<>>, <<"T",":","1">>} :
          OpenOutput(IF title # <<>> THEN title ELSE channel_username)
    /\ UNCHANGED <<outcome, input, channel_username, stats, mediaVars, process, call>>

\* GetEntityFails with the directory of line 184 made before the channel is resolved
GetEntityFails_DirFirst ==
    /\ pc = "get_entity"
    /\ tcalls' = Append(tcalls, "get_entity")
    /\ pc' = "finally"
    /\ fs' = [fs EXCEPT !.dirs = @ \cup Subdirectories(RunDirectory(channel_username))]
    /\ UNCHANGED <<exc, outcome, input, channel_username, resolved, stats,
                   messages_data, mediaVars, process, call>>

\* lines 179-181: get_entity raises an Exception; logged, return
GetEntityFails ==
    /\ pc = "get_entity"
    /\ tcalls' = Append(tcalls, "get_entity")
    /\ pc' = "finally"
    /\ UNCHANGED <<exc, outcome, input, channel_username, resolved, stats,
                   messages_data, fs, mediaVars, process, call>>

\* the await of line 178 is cancelled or interrupted
GetEntityCancelled ==
    /\ pc = "get_entity"
    /\ tcalls' = Append(tcalls, "get_entity")
    /\ Abort("Cancelled")
    /\ UNCHANGED <<outcome, input, channel_username, resolved, stats,
                   messages_data, fs, mediaVars, process, call>>

\* lines 258-259: await self.client.disconnect() returns
Disconnect ==
    /\ pc = "finally"
    /\ tcalls' = Append(tcalls, "disconnect")
    /\ pc' = "done"
    /\ outcome' = IF exc = "none" THEN "returned" ELSE "raised"
    /\ UNCHANGED <<exc, input, channel_username, resolved, stats,
                   messages_data, fs, mediaVars, process, call>>

\* lines 258-259: disconnect() itself raises
DisconnectFails ==
    /\ pc = "finally"
    /\ tcalls' = Append(tcalls, "disconnect")
    /\ pc' = "done"
    /\ \E e \in {"Exception", "Cancelled"} : exc' = e
    /\ outcome' = "raised"
    /\ UNCHANGED <<input, channel_username, resolved, stats, messages_data, fs, mediaVars, process, call>>

\* main() awaits download_channel(channel, limit) on a new object, lines 298-301
Init ==
    /\ InitObject
    /\ pc = "connect"
    /\ outcome = "running"
    /\ input \in [channel_username : {u_chan, u_at_chan}, limit : Limits, remote : RemoteSeqs]
    /\ channel_username = input.channel_username
    /\ call = NoCall

\* lines 300-313: how main() and the module's last lines end the process once
\* download_channel has returned or raised.  A returned call and a caught
\* Exception both let main() return, so asyncio.run returns and the interpreter
\* exits with status 0; a cancellation ends in line 303 or in lines 311-313
MainEnds ==
    /\ pc = "done"
    /\ process.state = "running"
    /\ IF outcome = "returned"
       THEN process' = Exited(0, "nothing")
       ELSE IF exc = "Cancelled"
       THEN \E said \in {"download_cancelled", "exiting"} : process' = Exited(0, said)
       ELSE process' = Exited(0, "fatal_error")
    /\ UNCHANGED <<pc, exc, outcome, input, channel_username, resolved, tcalls, stats,
                   messages_data, fs, mediaVars, call>>

Next ==
    \/ Connect
    \/ IsUserAuthorized
    \/ SendCodeRequest
    \/ SignIn
    \/ SignInPassword
    \/ ConnectFails
    \/ GetEntityReturns
    \/ GetEntityFails
    \/ GetEntityCancelled
    \/ Disconnect
    \/ DisconnectFails
    \/ MainEnds

Spec == Init /\ [][Next]_vars

\* every await of the run completes, with a result or an exception, and the
\* process then ends
SpecLive == Spec /\ WF_vars(Next)

---------------------------------------------------------------------------
(* sanitize_filename called on the object, lines 84-89 *)

NameChars == {"a", "_", "/", "\\", ":", "*"}

\* names around the slice bound: a body of one character and a last character
LongNames ==
    {[i \in 1..n |-> IF i = n THEN d ELSE c] :
        n \in (NameMax - 1)..(NameMax + 2), c \in {"a", "/"}, d \in {"a", "*"}}

SanitizeInputs == SeqsUpTo(NameChars, MaxShort) \cup LongNames

\* a client calls sanitize_filename(name)
SanitizeFirst ==
    /\ call.applied = 0
    /\ call' = [call EXCEPT !.first = sanitize_filename(call.arg), !.applied = 1]
    /\ UNCHANGED <<pc, exc, outcome, input, channel_username, resolved, tcalls, stats,
                   messages_data, fs, mediaVars, process>>

\* the client calls sanitize_filename on the name it got back
SanitizeSecond ==
    /\ call.applied = 1
    /\ call' = [call EXCEPT !.second = sanitize_filename(call.first), !.applied = 2]
    /\ UNCHANGED <<pc, exc, outcome, input, channel_username, resolved, tcalls, stats,
                   messages_data, fs, mediaVars, process>>

InitSanitize ==
    /\ InitObject
    /\ pc = "not_called"
    /\ outcome = "not_called"
    /\ input = [channel_username |-> <<>>, limit |-> [some |-> FALSE, n |-> 0], remote |-> <<>>]
    /\ channel_username = <<>>
    /\ call \in {[NoCall EXCEPT !.arg = s] : s \in SanitizeInputs}

NextSanitize ==
    \/ SanitizeFirst
    \/ SanitizeSecond

SpecSanitize == InitSanitize /\ [][NextSanitize]_vars

---------------------------------------------------------------------------
(* Claims *)

Last(q) == q[Len(q)]

\* the run was cut short by a client call that raised or was cancelled
TransportCut == exc \in {"Exception", "Cancelled"}

\* C1: every non-service message the remote sequence delivers to a run produces
\* exactly one record, and stats['messages'] equals the number of records; stated
\* for the end of a run whose channel resolved and that no failing or cancelled
\* client call cut short.
C1_OneRecordPerMessage ==
    (pc = "done" /\ resolved /\ ~TransportCut) =>
        /\ Len(messages_data) = Len(NonService(Delivered(input)))
        /\ stats.messages = Len(messages_data)

\* C2: a download_media call whose fetch was rate-limited k times, and that was not
\* cancelled, has waited k times and invoked the fetch k+1 times; if the last
\* fetch succeeded it returns a non-null path.
C2_RetryAfterEachWait ==
    (mpc = "idle" /\ ret.kind # "pending" /\ ret.exc # "Cancelled" /\ waits # <<>>) =>
        /\ Len(waits) = Cardinality({i \in 1..Len(fetch_log) : fetch_log[i] = "flood"})
        /\ fetches = Len(waits) + 1
        /\ (Last(fetch_log) = "ok" => ret.kind = "returned" /\ ~ret.isNone)

C4_FetchTroubleNeverRaises ==
    ret.kind = "raised" => ret.exc = "Cancelled"

\* C5: while the channel has not resolved, nothing exists on disk (no directory, no
\* transcript, no structured log) and every counter of stats is unchanged; so a
\* directory exists only after resolution has succeeded.
C5_NothingBeforeResolution ==
    ~resolved => (fs = EmptyDisk /\ stats = ZeroStats /\ messages_data = <<>>)

\* C5 witness: the run ended by the return of line 181
C5_ResolutionFailed ==
    /\ pc = "done"
    /\ ~resolved
    /\ outcome = "returned"
    /\ Len(tcalls) >= 2
    /\ tcalls[Len(tcalls) - 1] = "get_entity"

\* C6: when download_channel has returned or raised, client.disconnect() was
\* invoked, and it is the last call made on the client.
C6_DisconnectOnEveryExit ==
    /\ pc = "done" => (tcalls # <<>> /\ Last(tcalls) = "disconnect")
    /\ \A i \in 1..Len(tcalls) :
          tcalls[i] = "disconnect" => (i = Len(tcalls) /\ pc = "done")

\* C6 witness: a run that resolved its channel, was aborted by an exception and
\* released the connection
C6_AbortedAndReleased ==
    /\ pc = "done"
    /\ resolved
    /\ outcome = "raised"
    /\ Last(tcalls) = "disconnect"

\* C8: a run whose channel resolved and that no failing or cancelled client call
\* cut short has written the structured log exactly once, holding every record.
C8_StructuredLogWrittenOnce ==
    (pc = "done" /\ resolved /\ ~TransportCut) =>
        (fs.json_writes = 1 /\ fs.json = messages_data)

\* C9: at the suspension point of line 259, reached after the channel resolved, the
\* transcript exists and holds the header and one block per record produced.
C9_TranscriptConsistent ==
    (pc = "finally" /\ resolved) =>
        (fs.transcript.exists /\ Len(fs.transcript.blocks) = Len(messages_data))

\* the subdirectory the claim names for a descriptor of the model's inputs
C10_ExpectedSubdir(media) ==
    IF media.kind = "photo" THEN s_photos
    ELSE IF media.mime \in {m_video_mp4, m_video_ogg} THEN s_videos
    ELSE IF media.mime \in {m_app_ogg, m_audio} THEN s_audio
    ELSE s_documents

C12_TextOnlyRun ==
    (/\ pc = "done"
     /\ resolved
     /\ ~TransportCut
     /\ ~input.limit.some
     /\ \A i \in 1..Len(input.remote) :
           ~input.remote[i].service /\ input.remote[i].media = NoMedia) =>
        /\ outcome = "returned"
        /\ stats = [ZeroStats EXCEPT !.messages = Len(input.remote)]
        /\ fs.json_writes = 1
        /\ Len(fs.json) = Len(input.remote)
        /\ \A i \in 1..Len(fs.json) : fs.json[i].media_path.isNone

\* C13: when the process has exited, a run that an exception other than a
\* cancellation ended was logged as a fatal error and gave a non-zero status, and
\* a cancelled run gave a farewell and status 0.
C13_FailureExitsNonZero ==
    process.state = "exited" =>
        /\ (outcome = "raised" /\ exc # "Cancelled") =>
              (process.said = "fatal_error" /\ process.status # 0)
        /\ (outcome = "raised" /\ exc = "Cancelled") =>
              (process.said \in {"download_cancelled", "exiting"} /\ process.status = 0)

\* C14: a sanitized name holds none of the characters < > : " / \ | ? * and has
\* at most 255 characters, and sanitizing it again gives the same name.
C14_SanitizeIdempotent ==
    /\ call.applied >= 1 =>
          /\ Len(call.first) <= 255
          /\ \A i \in 1..Len(call.first) :
                call.first[i] \notin {"<", ">", ":", "\"", "/", "\\", "|", "?", "*"}
    /\ call.applied = 2 => call.second = call.first

\* C14 witness: a name over the length bound, with characters to replace,
\* sanitized twice
C14_LongNameSanitized ==
    /\ call.applied = 2
    /\ Len(call.arg) > 255
    /\ call.arg[1] = "/"
    /\ call.arg[Len(call.arg)] = "*"
    /\ Len(call.first) = 255
    /\ call.first[1] = "_"
    /\ call.second = call.first

\* the categories, extensions and id strings the claims name for the model's inputs
ExpectedKey(media) ==
    IF media.mime \in {m_video_mp4, m_video_ogg} THEN "videos"
    ELSE IF media.mime \in {m_app_ogg, m_audio} THEN "audio"
    ELSE "documents"

ExpectedExt(mime) ==
    IF mime = m_video_mp4 THEN <<"m","p","4">>
    ELSE IF mime \in {m_video_ogg, m_app_ogg} THEN <<"o","g","g">>
    ELSE IF mime = m_app_pdf THEN <<"p","d","f">>
    ELSE <<"b","i","n">>

ExpectedIdStr(id) == IF id = 7 THEN <<"7">> ELSE <<"4","2">>

ExpectedSynthesized(message) ==
    <<"f","i","l","e","_">> \o ExpectedIdStr(message.id) \o <<".">>
        \o ExpectedExt(message.media.mime)

C16_FilenameResolved ==
    (ncalls > 0 /\ cur.media.kind = "document") =>
        /\ fetches >= 1
        /\ file_path # <<>>
        /\ Last(file_path) =
              IF \E i \in 1..Len(cur.media.attrs) : cur.media.attrs[i].named
              THEN <<"r","e","p","o","r","t",".","p","d","f">>
              ELSE ExpectedSynthesized(cur)

\* C17: after the first download_media call on an object has invoked a fetch and
\* returned, the category counters together count the downloads that succeeded:
\* 1 if the call returned a path, 0 if it returned None.
C17_CountersMatchDownloads ==
    (mpc = "idle" /\ ncalls = 1 /\ fetches >= 1 /\ ret.kind = "returned") =>
        stats.photos + stats.videos + stats.audio + stats.documents
            = (IF ret.kind = "returned" /\ ~ret.isNone THEN 1 ELSE 0)

\* C18: the retry has no ceiling: while the last answer of the remote side to a
\* fetch is a rate limit, and the call was not cancelled, download_media is still
\* at work on the message, waiting or fetching again.
C18_KeepsRetrying ==
    (fetch_log # <<>> /\ Last(fetch_log) = "flood" /\ ret.exc # "Cancelled") =>
        mpc \in {"sleep", "fetch"}

\* every run ends: the connection is released and the process exits
RunTerminates ==
    <>(pc = "done" /\ Last(tcalls) = "disconnect" /\ process.state = "exited")

====
